---------------------------- MODULE Spec2Model ----------------------------
(***************************************************************************)
(* Model of backend/src/summarizer.py: the SentenceSummarizer class of     *)
(* LeXIDesk (construction, the four sentence signals, their weighted       *)
(* combination and the top-k selection).                                   *)
(*                                                                         *)
(* Numbers.  The program computes in floating point; the model computes    *)
(* with exact rationals <<n, d>> (d > 0, lowest terms), so "sums to 1"     *)
(* and "equal weight" are exact.  np.exp(-0.1 * i) is tabulated to two     *)
(* decimals.  Sequences are 1-based: index i of the model is index i-1 of  *)
(* the program.                                                            *)
(*                                                                         *)
(* Backends.  networkx, scikit-learn and sentence-transformers are outside *)
(* the program.  What a backend does in one call is an outcome drawn from  *)
(* a set: "raises", or the vector of raw scores it returns.                *)
(***************************************************************************)
EXTENDS Integers, Sequences, FiniteSets, TLC

VARIABLES
    backends,     \* the module-level HAS_* flags, set when the module is imported
    summarizer,   \* the SentenceSummarizer object: NoSummarizer, Raised or its fields
    call          \* the call that has just returned (its arguments, locals, result)

vars == <<backends, summarizer, call>>

----------------------------------------------------------------------------
(* Bounds of the model *)

MaxN == 4

----------------------------------------------------------------------------
(* Integers and exact rationals *)

Min(a, b) == IF a <= b THEN a ELSE b

Max(a, b) == IF a >= b THEN a ELSE b

Abs(a) == IF a < 0 THEN -a ELSE a

RECURSIVE GCD(_, _)
GCD(a, b) == IF b = 0 THEN a ELSE GCD(b, a % b)

\* the rational n/d in lowest terms with a positive denominator (d # 0)
Rat(n, d) ==
    LET g == GCD(Abs(n), Abs(d))
        s == IF d < 0 THEN -1 ELSE 1
    IN  <<(s * n) \div g, (s * d) \div g>>

Zero == <<0, 1>>

Unit == <<1, 1>>

Half == <<1, 2>>

RAdd(x, y) ==
    LET g == GCD(x[2], y[2])
    IN  Rat(x[1] * (y[2] \div g) + y[1] * (x[2] \div g), (x[2] \div g) * y[2])

RMul(x, y) ==
    LET a == Rat(x[1], y[2])
        b == Rat(y[1], x[2])
    IN  <<a[1] * b[1], a[2] * b[2]>>

\* x / y, for y # 0
RDiv(x, y) == RMul(x, Rat(y[2], y[1]))

RPos(x) == x[1] > 0

RNeg(x) == x[1] < 0

RLess(x, y) == x[1] * y[2] < y[1] * x[2]

RECURSIVE RSum(_)
RSum(v) == IF v = <<>> THEN Zero ELSE RAdd(v[1], RSum(Tail(v)))

\* int(x) of Python: truncation toward zero
IntTrunc(x) == IF x[1] >= 0 THEN x[1] \div x[2] ELSE -((-x[1]) \div x[2])

----------------------------------------------------------------------------
(* numpy vectors *)

\* np.ones(n) / n
Uniform(n) == [i \in 1..n |-> Rat(1, n)]

\* np.zeros(n)
Zeros(n) == [i \in 1..n |-> Zero]

\* scores / scores.sum() if scores.sum() > 0 else np.ones(n) / n
Normalize(scores) ==
    LET s == RSum(scores)
    IN  IF RPos(s) THEN [i \in 1..Len(scores) |-> RDiv(scores[i], s)]
        ELSE Uniform(Len(scores))

\* c * v
Scale(c, v) == [i \in 1..Len(v) |-> RMul(c, v[i])]

\* a + b, elementwise
VAdd(a, b) == [i \in 1..Len(a) |-> RAdd(a[i], b[i])]

\* seq[:n] of Python
Take(seq, n) ==
    IF n >= 0 THEN SubSeq(seq, 1, Min(n, Len(seq)))
    ELSE SubSeq(seq, 1, Max(Len(seq) + n, 0))


----------------------------------------------------------------------------
(* Optional arguments and backend outcomes *)

None == {}

Some(x) == {x}

Get(o) == CHOOSE x \in o : TRUE

\* what one use of a backend does: it raises, or it returns raw scores
Raises == [raises |-> TRUE, value |-> <<>>]

Returns(v) == [raises |-> FALSE, value |-> v]

\* one use of a backend in a call, with what it did
Used(backend, outcome) == [backend |-> backend, outcome |-> outcome]

\* what a signal computer hands back: its vector, the backends it used in
\* order, the warnings it emitted, and the exception that left it ("none"
\* when it returned)
Signal(v, used, warned) ==
    [scores |-> v, used |-> used, warnings |-> warned, raised |-> "none"]

----------------------------------------------------------------------------
(* SentenceSummarizer.__init__ *)

NoSummarizer == [state |-> "none"]

\* abs(total - 1.0) > 1e-6: the tolerance is below the model's resolution
NeedsNormalizing(total) == total # Unit

\* the stored coefficients; w / total raises ZeroDivisionError when total = 0
NormalizeWeights(w) ==
    LET total == RSum(w)
    IN  IF NeedsNormalizing(total)
        THEN [i \in 1..4 |-> RDiv(w[i], total)]
        ELSE w

\* w = <<cnn_prob_weight, textrank_weight, tfidf_weight, position_weight>>;
\* load is what SentenceTransformer(embedding_model_name) does
InitSummarizer(w, use_embeddings, load) ==
    LET total == RSum(w)
        warn  == IF NeedsNormalizing(total) THEN {"normalizing"} ELSE {}
        wants == use_embeddings /\ backends.sentence_transformers
        emb   == wants /\ ~load.raises
    IN  IF NeedsNormalizing(total) /\ total = Zero
        THEN [state |-> "raised", exception |-> "ZeroDivisionError", args |-> w]
        ELSE [state            |-> "constructed",
              args             |-> w,
              weights          |-> NormalizeWeights(w),
              use_embeddings   |-> emb,
              embedding_model  |-> IF emb THEN "loaded" ELSE "None",
              warnings         |-> warn \cup
                                   (IF wants /\ load.raises THEN {"load failed"} ELSE {})]

Construct(w, use_embeddings, load) ==
    /\ summarizer = NoSummarizer
    /\ summarizer' = InitSummarizer(w, use_embeddings, load)
    /\ UNCHANGED <<backends, call>>

cnn_prob_weight == summarizer.weights[1]

textrank_weight == summarizer.weights[2]

tfidf_weight == summarizer.weights[3]

position_weight == summarizer.weights[4]

----------------------------------------------------------------------------
(* The four signal computers *)

\* pr: what nx.pagerank(G, max_iter=100) does on the similarity graph of the
\* sentences (the graph and the tokenizer behind it are not modelled)
ComputeTextrankScores(sentences, pr) ==
    LET n == Len(sentences)
    IN  IF ~backends.networkx THEN Signal(Uniform(n), <<>>, <<>>)
        ELSE IF n < 2 THEN Signal(Uniform(n), <<>>, <<>>)
        ELSE IF pr.raises
        THEN Signal(Normalize(Uniform(n)), <<Used("pagerank", pr)>>, <<>>)
        ELSE Signal(Normalize(pr.value), <<Used("pagerank", pr)>>, <<>>)

\* tf: what TfidfVectorizer.fit_transform and cosine_similarity to the
\* centroid do on the sentences
ComputeTfidfScores(sentences, tf) ==
    LET n == Len(sentences)
    IN  IF ~backends.sklearn THEN Signal(Uniform(n), <<>>, <<>>)
        ELSE IF n = 0 THEN Signal(<<>>, <<>>, <<>>)
        ELSE IF tf.raises
        THEN Signal(Uniform(n), <<Used("tfidf", tf)>>, <<"TF-IDF computation failed">>)
        ELSE Signal(Normalize(tf.value), <<Used("tfidf", tf)>>, <<>>)

\* a variant that gives up on the lexical path: uniform scores when the
\* embedding path fails
EmbeddingScoresUniformOnFailure(sentences, em, tf) ==
    LET n == Len(sentences)
    IN  IF ~summarizer.use_embeddings \/ summarizer.embedding_model = "None"
        THEN ComputeTfidfScores(sentences, tf)
        ELSE IF em.raises \/ ~backends.sklearn
        THEN Signal(Uniform(n), <<Used("encode", em)>>,
                    <<"Embedding computation failed">>)
        ELSE Signal(Normalize(em.value), <<Used("encode", em)>>, <<>>)

\* em: what embedding_model.encode does, and the cosine similarities to the
\* centroid of what it returns; cosine_similarity is scikit-learn's, and
\* without scikit-learn the name is unbound (NameError, caught like the rest)
ComputeEmbeddingScores(sentences, em, tf) ==
    LET n        == Len(sentences)
        fallback == ComputeTfidfScores(sentences, tf)
    IN  IF ~summarizer.use_embeddings \/ summarizer.embedding_model = "None"
        THEN fallback
        ELSE IF em.raises \/ ~backends.sklearn
        THEN Signal(fallback.scores,
                    <<Used("encode", em)>> \o fallback.used,
                    <<"Embedding computation failed">> \o fallback.warnings)
        ELSE Signal(Normalize(em.value), <<Used("encode", em)>>, <<>>)

\* np.exp(-0.1 * i) for i = 0, 1, ..., to two decimals
ExpDecay == <<100, 90, 82, 74, 67, 61, 55, 50>>

\* a variant whose decay has the wrong sign: np.exp(0.1 * i)
PositionScoresRising(sentences) ==
    LET n == Len(sentences)
    IN  IF n = 0 THEN Signal(<<>>, <<>>, <<>>)
        ELSE Signal(Normalize([i \in 1..n |-> Rat(ExpDecay[1], ExpDecay[i])]),
                    <<>>, <<>>)

ComputePositionScores(sentences) ==
    LET n == Len(sentences)
    IN  IF n = 0 THEN Signal(<<>>, <<>>, <<>>)
        ELSE Signal(Normalize([i \in 1..n |-> Rat(ExpDecay[i], ExpDecay[1])]),
                    <<>>, <<>>)

\* a variant that pads with 1 instead of 0.5
CnnProbScoresPadOne(sentences, cnn_probs) ==
    LET n == Len(sentences)
    IN  IF cnn_probs = None \/ cnn_probs = Some(<<>>)
        THEN Signal(IF n > 0 THEN Uniform(n) ELSE <<>>, <<>>, <<>>)
        ELSE LET p == Get(cnn_probs)
                 scores ==
                     IF Len(p) = n THEN p
                     ELSE IF Len(p) > n THEN SubSeq(p, 1, n)
                     ELSE p \o [i \in 1..(n - Len(p)) |-> Unit]
             IN  Signal(Normalize(scores), <<>>, <<>>)

\* cnn_probs is None or Some(list); original_text is not read
ComputeCnnProbScores(sentences, cnn_probs) ==
    LET n == Len(sentences)
    IN  IF cnn_probs = None \/ cnn_probs = Some(<<>>)
        THEN Signal(IF n > 0 THEN Uniform(n) ELSE <<>>, <<>>, <<>>)
        ELSE LET p == Get(cnn_probs)
                 scores ==
                     IF Len(p) = n THEN p
                     ELSE IF Len(p) > n THEN SubSeq(p, 1, n)
                     ELSE p \o [i \in 1..(n - Len(p)) |-> Half]
             IN  Signal(Normalize(scores), <<>>, <<>>)

----------------------------------------------------------------------------
(* compute_sentence_weights *)

\* the names under which the computed signals are recorded
Recorded ==
    (IF RPos(cnn_prob_weight) THEN {"cnn_prob"} ELSE {})
    \cup (IF RPos(textrank_weight) THEN {"textrank"} ELSE {})
    \cup (IF RPos(tfidf_weight)
          THEN (IF summarizer.use_embeddings THEN {"embeddings"} ELSE {"tfidf"})
          ELSE {})
    \cup (IF RPos(position_weight) THEN {"position"} ELSE {})

\* a signal whose coefficient is not positive is not computed
NotComputed(n) == Signal(Zeros(n), <<>>, <<>>)

\* cnn_prob_weight * cnn + textrank_weight * textrank + tfidf_weight * sim
\*   + position_weight * position
Combine(cnn, textrank, sim, position) ==
    VAdd(VAdd(VAdd(Scale(cnn_prob_weight, cnn), Scale(textrank_weight, textrank)),
              Scale(tfidf_weight, sim)),
         Scale(position_weight, position))

\* the exception of the first signal computer that raised, "none" if none did
FirstRaised(signals) ==
    IF \A i \in 1..Len(signals) : signals[i].raised = "none" THEN "none"
    ELSE LET first == CHOOSE i \in 1..Len(signals) :
                        /\ signals[i].raised # "none"
                        /\ \A j \in 1..(i - 1) : signals[j].raised = "none"
         IN  signals[first].raised

NoScores == [k \in {} |-> <<>>]

\* what compute_sentence_weights hands back: (combined weights, component
\* scores), or the exception that left it; used and warnings are the
\* backends used and the warnings emitted on the way
Weights(weights, component_scores, used, warned, exception) ==
    [weights |-> weights, component_scores |-> component_scores,
     used |-> used, warnings |-> warned, exception |-> exception]

ComputeSentenceWeights(sentences, cnn_probs, pr, tf, em) ==
    LET n == Len(sentences)
    IN  IF n = 0
        THEN Weights(<<>>, NoScores, <<>>, <<>>, "none")
        ELSE
        LET cnn == IF RPos(cnn_prob_weight)
                   THEN ComputeCnnProbScores(sentences, cnn_probs)
                   ELSE NotComputed(n)
            textrank == IF RPos(textrank_weight)
                        THEN ComputeTextrankScores(sentences, pr)
                        ELSE NotComputed(n)
            sim == IF RPos(tfidf_weight)
                   THEN (IF summarizer.use_embeddings
                         THEN ComputeEmbeddingScores(sentences, em, tf)
                         ELSE ComputeTfidfScores(sentences, tf))
                   ELSE NotComputed(n)
            position == IF RPos(position_weight)
                        THEN ComputePositionScores(sentences)
                        ELSE NotComputed(n)
            all == <<cnn, textrank, sim, position>>
            used == cnn.used \o textrank.used \o sim.used \o position.used
            warned == cnn.warnings \o textrank.warnings \o sim.warnings
                        \o position.warnings
        IN  IF FirstRaised(all) # "none"
            THEN Weights(<<>>, NoScores, used, warned, FirstRaised(all))
            ELSE Weights(Normalize(Combine(cnn.scores, textrank.scores,
                                           sim.scores, position.scores)),
                         [k \in Recorded |->
                             CASE k = "cnn_prob" -> cnn.scores
                               [] k = "textrank" -> textrank.scores
                               [] k = "position" -> position.scores
                               [] OTHER -> sim.scores],
                         used, warned, "none")

----------------------------------------------------------------------------
(* summarize *)

\* a variant that reads the compression ratio before top_k
NSelectCompressionFirst(n, compression, top_k) ==
    IF compression # None THEN Max(1, IntTrunc(RMul(Rat(n, 1), Get(compression))))
    ELSE IF top_k # None THEN Min(Get(top_k), n)
    ELSE Max(2, IntTrunc(RMul(Rat(n, 1), Rat(3, 10))))

\* n_select: top_k, else the compression ratio, else 30% and at least 2
NSelect(n, compression, top_k) ==
    IF top_k # None THEN Min(Get(top_k), n)
    ELSE IF compression # None THEN Max(1, IntTrunc(RMul(Rat(n, 1), Get(compression))))
    ELSE Max(2, IntTrunc(RMul(Rat(n, 1), Rat(3, 10))))

\* the first index of pending with the greatest weight
FirstMax(weights, pending) ==
    CHOOSE i \in pending :
        \A j \in pending :
            \/ RLess(weights[j], weights[i])
            \/ (weights[j] = weights[i] /\ i <= j)

RECURSIVE SortFrom(_, _)
SortFrom(weights, pending) ==
    IF pending = {} THEN <<>>
    ELSE LET i == FirstMax(weights, pending)
         IN  <<i>> \o SortFrom(weights, pending \ {i})

\* sentence_indices.sort(key=lambda i: weights[i], reverse=True): list.sort is
\* stable, also when reversed, so equal weights keep their ascending indices
SortByWeight(weights) == SortFrom(weights, 1..Len(weights))

\* the indices of pending with the least weight
Least(weights, pending) ==
    {i \in pending : \A j \in pending : ~RLess(weights[j], weights[i])}

RECURSIVE ArgsortFrom(_, _)
ArgsortFrom(weights, pending) ==
    IF pending = {} THEN {<<>>}
    ELSE UNION {{<<i>> \o rest : rest \in ArgsortFrom(weights, pending \ {i})} :
                i \in Least(weights, pending)}

\* np.argsort(weights): ascending; the default kind is quicksort, which is not
\* stable, so equal weights come in an order the build chooses
Argsort(weights) == ArgsortFrom(weights, 1..Len(weights))

\* seq[::-1]
Reversed(seq) == [i \in 1..Len(seq) |-> seq[Len(seq) + 1 - i]]

\* a variant without the final sort: the indices as they were ranked
Unsorted(indices) == indices

RECURSIVE SortedFrom(_)
SortedFrom(pending) ==
    IF pending = {} THEN <<>>
    ELSE LET least == CHOOSE i \in pending : \A j \in pending : i <= j
         IN  <<least>> \o SortedFrom(pending \ {least})

\* sorted(indices), for indices that are all different
Sorted(indices) == SortedFrom({indices[i] : i \in 1..Len(indices)})

\* the indices chosen; order is what np.argsort returned (read only when
\* preserve_order is false)
SelectIndices(weights, n_select, preserve_order, order) ==
    IF preserve_order
    THEN Sorted(Take(SortByWeight(weights), n_select))
    ELSE Sorted(Take(Reversed(order), n_select))

\* what summarize hands back, (selected_sentences, weights, component_scores),
\* with its arguments and its locals n_select and selected_indices
Summary(cw, selected_sentences, n_select, selected_indices) ==
    [selected_sentences |-> selected_sentences, weights |-> cw.weights,
     component_scores |-> cw.component_scores, used |-> cw.used,
     warnings |-> cw.warnings, exception |-> cw.exception,
     n_select |-> n_select, selected_indices |-> selected_indices]

Summarize(sentences, cnn_probs, pr, tf, em, compression, top_k, preserve_order, order) ==
    IF Len(sentences) = 0
    THEN Summary(Weights(<<>>, NoScores, <<>>, <<>>, "none"), <<>>, 0, <<>>)
    ELSE
    LET cw == ComputeSentenceWeights(sentences, cnn_probs, pr, tf, em)
        n_select == NSelect(Len(sentences), compression, top_k)
        selected_indices == SelectIndices(cw.weights, n_select, preserve_order, order)
    IN  IF cw.exception # "none"
        THEN Summary(cw, <<>>, 0, <<>>)
        ELSE Summary(cw,
                     [j \in 1..Len(selected_indices) |-> sentences[selected_indices[j]]],
                     n_select, selected_indices)

----------------------------------------------------------------------------
(* The calls *)

NoCall == [op |-> "none"]

\* compute_sentence_weights(sentences, original_text, cnn_probs) returns;
\* outcomes is what each backend does in this call if it is used
CallComputeSentenceWeights(sentences, cnn_probs, pr, tf, em) ==
    /\ summarizer.state = "constructed"
    /\ call = NoCall
    /\ call' = [op |-> "compute_sentence_weights",
                sentences |-> sentences, cnn_probs |-> cnn_probs,
                outcomes |-> [pagerank |-> pr, tfidf |-> tf, encode |-> em],
                result |-> ComputeSentenceWeights(sentences, cnn_probs, pr, tf, em)]
    /\ UNCHANGED <<backends, summarizer>>

\* summarize(sentences, original_text, cnn_probs, compression, top_k,
\* preserve_order) returns
CallSummarize(sentences, cnn_probs, pr, tf, em, compression, top_k, preserve_order) ==
    /\ summarizer.state = "constructed"
    /\ call = NoCall
    /\ \E order \in IF preserve_order THEN {<<>>}
                    ELSE Argsort(ComputeSentenceWeights(sentences, cnn_probs,
                                                        pr, tf, em).weights) :
          call' = [op |-> "summarize",
                   sentences |-> sentences, cnn_probs |-> cnn_probs,
                   compression |-> compression, top_k |-> top_k,
                   preserve_order |-> preserve_order,
                   outcomes |-> [pagerank |-> pr, tfidf |-> tf, encode |-> em],
                   result |-> Summarize(sentences, cnn_probs, pr, tf, em,
                                        compression, top_k, preserve_order, order)]
    /\ UNCHANGED <<backends, summarizer>>

\* the caller takes the result; nothing of a call is kept
Return ==
    /\ call # NoCall
    /\ call' = NoCall
    /\ UNCHANGED <<backends, summarizer>>

----------------------------------------------------------------------------
(* The arguments and the backend outcomes the specifications draw from *)

Quarter == <<1, 4>>

\* the sentence list of n sentences, all different
Doc(n) == SubSeq(<<"s0", "s1", "s2", "s3", "s4", "s5", "s6", "s7">>, 1, n)

Backends == [networkx : BOOLEAN, sklearn : BOOLEAN, sentence_transformers : BOOLEAN]

Bare == [networkx |-> FALSE, sklearn |-> FALSE, sentence_transformers |-> FALSE]

\* every quadruple of coefficients over -1/4, 0, 1/4, 1/2
AnyWeights == [1..4 -> {Rat(-1, 4), Zero, Quarter, Half}]

\* each signal on (1/4) or off (0)
OnOffWeights == [1..4 -> {Zero, Quarter}]

\* the boundary signal alone, the position signal alone, both, or all four
SelectionWeights ==
    {w \in OnOffWeights :
        /\ w[2] = w[3]
        /\ w[1] # Zero \/ w[4] # Zero
        /\ w[2] # Zero => (w[1] # Zero /\ w[4] # Zero)}

\* SentenceTransformer(embedding_model_name) loads (the model is not
\* modelled) or raises
Loads == {Raises, Returns(<<>>)}

\* every list of at most maxlen values among vals
Lists(vals, maxlen) == UNION {[1..l -> vals] : l \in 0..maxlen}

\* cnn_probs: None, or a list of at most n + 1 probabilities among 0, 1/2, 1
CnnProbs(n) == {None} \cup {Some(p) : p \in Lists({Zero, Half, Unit}, n + 1)}

\* cnn_probs: None, or one probability, 0 or 1, for each of n sentences
FewCnnProbs(n) == {None} \cup {Some(p) : p \in [1..n -> {Zero, Unit}]}

\* raw scores of n sentences: all 0, all 1, or 1 for one sentence and 0 for
\* the others
Profiles(n) ==
    {[i \in 1..n |-> IF i = h THEN Unit ELSE Zero] : h \in 0..n}
    \cup {[i \in 1..n |-> Unit]}

\* cosine similarities to the centroid of which one is negative (two
\* sentences at least: a lone sentence is its own centroid)
Opposed(n) ==
    IF n < 2 THEN {}
    ELSE {[i \in 1..n |-> IF i = c THEN <<-1, 1>> ELSE Unit] : c \in 1..n}

\* a backend that is not installed is an unbound name: using it raises
PagerankOutcomes(n) ==
    IF backends.networkx THEN {Raises} \cup {Returns(v) : v \in Profiles(n)}
    ELSE {Raises}

\* TF-IDF vectors have no negative entry, so neither have their cosines
TfidfOutcomes(n) ==
    IF backends.sklearn THEN {Raises} \cup {Returns(v) : v \in Profiles(n)}
    ELSE {Raises}

EncodeOutcomes(n) ==
    IF summarizer.state = "constructed" /\ summarizer.use_embeddings
    THEN {Raises} \cup {Returns(v) : v \in Profiles(n) \cup Opposed(n)}
    ELSE {Raises}

TopKs == {None} \cup {Some(k) : k \in (-1)..(MaxN + 1)}

Compressions ==
    {None} \cup {Some(r) : r \in {Zero, Half, Unit, Rat(3, 2)}}

----------------------------------------------------------------------------
(* Specifications *)

Init ==
    /\ backends \in Backends
    /\ summarizer = NoSummarizer
    /\ call = NoCall

InitBare ==
    /\ backends = Bare
    /\ summarizer = NoSummarizer
    /\ call = NoCall

\* construction, with any coefficients
NextConstruct ==
    \E w \in AnyWeights, use_embeddings \in BOOLEAN, load \in Loads :
        Construct(w, use_embeddings, load)

SpecConstruct == Init /\ [][NextConstruct]_vars

\* selection: no optional package installed, every selection policy
Next ==
    \/ \E w \in SelectionWeights : Construct(w, FALSE, Raises)
    \/ \E n \in 0..MaxN : \E cnn_probs \in FewCnnProbs(n) :
          CallComputeSentenceWeights(Doc(n), cnn_probs, Raises, Raises, Raises)
    \/ \E n \in 0..MaxN : \E cnn_probs \in FewCnnProbs(n) :
          \E compression \in Compressions, top_k \in TopKs, preserve_order \in BOOLEAN :
             CallSummarize(Doc(n), cnn_probs, Raises, Raises, Raises,
                           compression, top_k, preserve_order)
    \/ Return

Spec == InitBare /\ [][Next]_vars

\* the boundary signal: no optional package installed, every cnn_probs
NextBoundary ==
    \/ \E w \in OnOffWeights : Construct(w, FALSE, Raises)
    \/ \E n \in 0..MaxN : \E cnn_probs \in CnnProbs(n) :
          CallComputeSentenceWeights(Doc(n), cnn_probs, Raises, Raises, Raises)
    \/ \E n \in 0..MaxN : \E cnn_probs \in CnnProbs(n) :
          CallSummarize(Doc(n), cnn_probs, Raises, Raises, Raises, None, None, TRUE)
    \/ Return

SpecBoundary == InitBare /\ [][NextBoundary]_vars

\* the backends: any of them installed or not, raising or returning
NextBackends ==
    \/ \E w \in OnOffWeights, use_embeddings \in BOOLEAN, load \in Loads :
          Construct(w, use_embeddings, load)
    \/ \E n \in 0..MaxN :
          \E pr \in PagerankOutcomes(n), tf \in TfidfOutcomes(n), em \in EncodeOutcomes(n) :
             CallComputeSentenceWeights(Doc(n), None, pr, tf, em)
    \/ \E n \in 0..MaxN :
          \E pr \in PagerankOutcomes(n), tf \in TfidfOutcomes(n), em \in EncodeOutcomes(n) :
             CallSummarize(Doc(n), None, pr, tf, em, None, None, TRUE)
    \/ Return

SpecBackends == Init /\ [][NextBackends]_vars

----------------------------------------------------------------------------
(* Properties of summarize: the selection *)

Summarized == call.op = "summarize" /\ Len(call.sentences) > 0

N == Len(call.sentences)

Selected == {call.result.selected_indices[j] :
                j \in 1..Len(call.result.selected_indices)}

\* floor(n * r) for a ratio r >= 0
FloorOf(n, r) == (n * r[1]) \div r[2]

\* the count the selection policy asks for: top_k, else max(1, floor(N * r)),
\* else max(2, floor(N * 0.3))
Requested ==
    IF call.top_k # None THEN Get(call.top_k)
    ELSE IF call.compression # None THEN Max(1, FloorOf(N, Get(call.compression)))
    ELSE Max(2, FloorOf(N, <<3, 10>>))

\* C1: on a non-empty list, whatever the policy, the number of sentences
\* returned is min(requested count, N) and at least 1; an explicit top_k is
\* clamped to [1, N].
C1Claim ==
    Summarized =>
        /\ Len(call.result.selected_sentences) = Min(Requested, N)
        /\ Len(call.result.selected_sentences) >= 1
        /\ call.top_k # None =>
              Len(call.result.selected_sentences) = Max(1, Min(Get(call.top_k), N))

\* C2: of two sentences of equal combined weight of which one is selected,
\* the selected one has the lower index, with preserve_order true and false.
C2Claim ==
    Summarized =>
        \A i, j \in 1..N :
            (/\ i < j
             /\ call.result.weights[i] = call.result.weights[j]
             /\ j \in Selected) => i \in Selected

\* C3: the sentences returned are in strictly ascending original index, with
\* preserve_order true and false, and each is the input sentence at its index.
C3Theorem ==
    Summarized =>
        LET idx == call.result.selected_indices
            out == call.result.selected_sentences
        IN  /\ \A a, b \in 1..Len(idx) : a < b => idx[a] < idx[b]
            /\ \A a \in 1..Len(idx) : idx[a] \in 1..N
            /\ Len(out) = Len(idx)
            /\ \A a \in 1..Len(out) : out[a] = call.sentences[idx[a]]

\* a summary, asked without preserve_order, in which a sentence of lower
\* weight precedes one of higher weight: document order, not weight order
C3Witness ==
    /\ Summarized
    /\ ~call.preserve_order
    /\ \E a, b \in 1..Len(call.result.selected_indices) :
          /\ a < b
          /\ RLess(call.result.weights[call.result.selected_indices[a]],
                   call.result.weights[call.result.selected_indices[b]])

\* C8: the count is resolved in priority order: top_k when given (the
\* compression ratio is then not read); else, for a ratio r in (0, 1],
\* max(1, floor(N * r)); else max(2, floor(N * 0.3)).
C8Theorem ==
    Summarized =>
        /\ call.top_k # None => call.result.n_select = Min(Get(call.top_k), N)
        /\ (/\ call.top_k = None
            /\ call.compression # None
            /\ RPos(Get(call.compression))
            /\ ~RLess(Unit, Get(call.compression)))
              => /\ call.result.n_select = Max(1, FloorOf(N, Get(call.compression)))
                 /\ Len(call.result.selected_sentences) = call.result.n_select
        /\ (call.top_k = None /\ call.compression = None)
              => /\ call.result.n_select = Max(2, FloorOf(N, <<3, 10>>))
                 /\ Len(call.result.selected_sentences) = Min(call.result.n_select, N)

\* top_k = 3 and compression = 1/2 on four sentences: three are returned
C8Witness ==
    /\ Summarized
    /\ N = 4
    /\ call.top_k = Some(3)
    /\ call.compression = Some(Half)
    /\ Len(call.result.selected_sentences) = 3

PositionOnly ==
    /\ summarizer.state = "constructed"
    /\ \A k \in 1..3 : summarizer.args[k] = Zero
    /\ summarizer.args[4] # Zero

\* C9: when position_weight is the only non-zero coefficient, the combined
\* weights strictly decrease with the index and summarize selects the
\* lowest-index sentences: the first k of them for a count k.
C9Theorem ==
    (Summarized /\ PositionOnly) =>
        LET idx == call.result.selected_indices
        IN  /\ \A i, j \in 1..N :
                  i < j => RLess(call.result.weights[j], call.result.weights[i])
            /\ idx = [j \in 1..Len(idx) |-> j]
            /\ call.result.n_select >= 0 => Len(idx) = Min(call.result.n_select, N)

\* four sentences, compression = 1/2: the first two are selected
C9Witness ==
    /\ Summarized
    /\ PositionOnly
    /\ N = 4
    /\ call.top_k = None
    /\ call.compression = Some(Half)
    /\ call.result.selected_indices = <<1, 2>>

----------------------------------------------------------------------------
(* Properties of compute_sentence_weights: the signals *)

\* a call of either operation on a non-empty list that returned
Weighed ==
    /\ call.op \in {"compute_sentence_weights", "summarize"}
    /\ Len(call.sentences) > 0
    /\ call.result.exception = "none"

\* v has one entry for each of n sentences, none negative, and they sum to 1
IsDistribution(v, n) ==
    /\ Len(v) = n
    /\ \A i \in 1..n : ~RNeg(v[i])
    /\ RSum(v) = Unit

\* C4: on a non-empty list, each recorded signal vector and the combined
\* vector have one entry per sentence, no negative entry, and sum to 1.
C4Claim ==
    Weighed =>
        /\ IsDistribution(call.result.weights, N)
        /\ \A k \in DOMAIN call.result.component_scores :
              IsDistribution(call.result.component_scores[k], N)

\* the probabilities before normalizing: P cut to its first N values, or
\* padded with 0.5 up to N
Boundary(p, n) == [i \in 1..n |-> IF i <= Len(p) THEN p[i] ELSE Half]

\* v is raw divided by its sum, or uniform when raw is all zero
IsNormalized(v, raw) ==
    /\ Len(v) = Len(raw)
    /\ IF \A i \in 1..Len(raw) : raw[i] = Zero
       THEN \A i \in 1..Len(v) : v[i] = <<1, Len(raw)>>
       ELSE \A i \in 1..Len(v) : RMul(v[i], RSum(raw)) = raw[i]

\* C7: the boundary signal of N sentences and probabilities P is the
\* normalization of P when |P| = N, of its first N values when |P| > N, of P
\* padded with 0.5 when 0 < |P| < N, and uniform when P is absent or empty;
\* an all-zero vector normalizes to uniform.
C7Theorem ==
    (Weighed /\ "cnn_prob" \in DOMAIN call.result.component_scores) =>
        LET v == call.result.component_scores["cnn_prob"]
        IN  IF call.cnn_probs = None \/ call.cnn_probs = Some(<<>>)
            THEN v = [i \in 1..N |-> <<1, N>>]
            ELSE IsNormalized(v, Boundary(Get(call.cnn_probs), N))

\* fewer probabilities than sentences, not all zero: the padding shows
C7Witness ==
    /\ Weighed
    /\ "cnn_prob" \in DOMAIN call.result.component_scores
    /\ call.cnn_probs # None
    /\ Len(Get(call.cnn_probs)) \in 1..(N - 1)
    /\ \E i \in 1..Len(Get(call.cnn_probs)) : Get(call.cnn_probs)[i] = Unit

\* the uses of a backend in the call
UsesOf(backend) ==
    {i \in 1..Len(call.result.used) : call.result.used[i].backend = backend}

\* what the lexical path gives: uniform without scikit-learn or when the
\* vectorizer raises, else the normalization of what it returns
IsLexical(v) ==
    IF ~backends.sklearn \/ call.outcomes.tfidf.raises
    THEN v = [i \in 1..N |-> <<1, N>>]
    ELSE IsNormalized(v, call.outcomes.tfidf.value)

\* C10: whatever backends are missing or raise, both operations return on a
\* non-empty list: an embedding backend that fails at inference gives the
\* lexical path's result, a missing or raising lexical vectorizer the uniform
\* vector, a missing or raising centrality backend the uniform vector, and no
\* backend is used twice.
C10Theorem ==
    (call.op \in {"compute_sentence_weights", "summarize"} /\ N > 0) =>
        LET scores == call.result.component_scores
        IN  /\ call.result.exception = "none"
            /\ Len(call.result.weights) = N
            /\ RSum(call.result.weights) = Unit
            /\ \A b \in {"pagerank", "tfidf", "encode"} : Cardinality(UsesOf(b)) <= 1
            /\ ("embeddings" \in DOMAIN scores
                   /\ (call.outcomes.encode.raises \/ ~backends.sklearn))
                  => IsLexical(scores["embeddings"])
            /\ ("tfidf" \in DOMAIN scores
                   /\ (call.outcomes.tfidf.raises \/ ~backends.sklearn))
                  => scores["tfidf"] = [i \in 1..N |-> <<1, N>>]
            /\ ("textrank" \in DOMAIN scores
                   /\ (call.outcomes.pagerank.raises \/ ~backends.networkx))
                  => scores["textrank"] = [i \in 1..N |-> <<1, N>>]

\* the embedding backend raised and the similarity signal is the lexical
\* one, which is not uniform
C10Witness ==
    /\ call.op \in {"compute_sentence_weights", "summarize"}
    /\ N > 1
    /\ call.outcomes.encode.raises
    /\ UsesOf("encode") # {}
    /\ "embeddings" \in DOMAIN call.result.component_scores
    /\ call.result.component_scores["embeddings"] # [i \in 1..N |-> <<1, N>>]

----------------------------------------------------------------------------
(* Properties of the construction *)

Built == summarizer.state # "none"

NonNegative == \A k \in 1..4 : ~RNeg(summarizer.args[k])

\* C5: constructing with four non-negative coefficients never raises; when
\* they do not sum to 1 the stored ones sum to 1 in the same ratios and a
\* warning is recorded; when they do, they are stored as given, no warning.
C5Claim ==
    (Built /\ NonNegative) =>
        /\ summarizer.state = "constructed"
        /\ RSum(summarizer.args) # Unit =>
              /\ RSum(summarizer.weights) = Unit
              /\ \A i, j \in 1..4 :
                    RMul(summarizer.weights[i], summarizer.args[j])
                      = RMul(summarizer.weights[j], summarizer.args[i])
              /\ "normalizing" \in summarizer.warnings
        /\ RSum(summarizer.args) = Unit =>
              /\ summarizer.weights = summarizer.args
              /\ "normalizing" \notin summarizer.warnings

\* C6: constructing with a negative coefficient fails with an error; no
\* summarizer holding a negative coefficient is produced.
C6Claim ==
    (Built /\ ~NonNegative) =>
        /\ summarizer.state = "raised"
        /\ summarizer.state = "constructed" =>
              \A k \in 1..4 : ~RNeg(summarizer.weights[k])

============================================================================
